---- MODULE Spec2Model ----
(***************************************************************************)
(* Model of ebiodiv/matchingalgorithm.py: normalization of occurrences     *)
(* (normalize_occurrence and the per-field normalizers) and scoring of a   *)
(* pair of occurrences (get_scores and the per-field scorers); and of the  *)
(* POST /newOcurrenceRelations handler of ebiodiv/app.py on the tables of  *)
(* ebiodiv/storage.py (specification SpecApp).                             *)
(*                                                                         *)
(* Python values are records [t, n, s, l, fs]:                             *)
(*   t  the Python type: "None", "num", "str", "list", "frozenset", or the *)
(*      name of the exception an evaluation raised;                        *)
(*   n  the number (whole numbers; int and float of equal value are equal  *)
(*      in Python and are one value here);                                 *)
(*   s  the string, a sequence of one-character strings;                   *)
(*   l  the list, a sequence of [type, value] records (recordedByIDs);     *)
(*   fs the frozenset of identifier strings.                               *)
(* Float scores are fixed-point numbers in units of 1/Micro; the scores    *)
(* get_scores returns, rounded to 3 decimals, are in units of 1/1000.      *)
(***************************************************************************)
EXTENDS Integers, Sequences, FiniteSets, TLC

VARIABLES
    subject,     \* the subject occurrence mapping (mutated by normalize_occurrence)
    related,     \* the related occurrence mapping
    rawSubject,  \* the subject mapping as it was received
    rawRelated,  \* the related mapping as it was received
    nSubject,    \* number of completed normalize_occurrence(subject) calls
    nRelated,    \* number of completed normalize_occurrence(related) calls
    raised,      \* the exception the last call raised, or "ok"
    result,      \* what get_scores returned: NoResult until it is called
    users,       \* the rows of table "users", in order of insertion (id = position)
    occurrences, \* the rows of table "occurrences"
    events,      \* the rows of table "events", each with its relations
    request,     \* the body of the last /newOcurrenceRelations request
    nRequests    \* number of /newOcurrenceRelations requests handled

\* the tables and the request counter of the storage server
appVars == <<users, occurrences, events, request, nRequests>>

vars == <<subject, related, rawSubject, rawRelated, nSubject, nRelated, raised, result,
          users, occurrences, events, request, nRequests>>

\* ------------------------------------------------------------------ bounds
\* normalize_occurrence is called at most this many times on one occurrence
MaxNormalize == 2
\* whole numbers of the inputs range over -MaxInt..MaxInt
MaxInt == 2
\* at most this many /newOcurrenceRelations requests are handled
MaxRequests == 3

\* -------------------------------------------------------------- Python values
None == [t |-> "None", n |-> 0, s |-> <<>>, l |-> <<>>, fs |-> {}]
Num(k) == [t |-> "num", n |-> k, s |-> <<>>, l |-> <<>>, fs |-> {}]
Str(chars) == [t |-> "str", n |-> 0, s |-> chars, l |-> <<>>, fs |-> {}]
List(recs) == [t |-> "list", n |-> 0, s |-> <<>>, l |-> recs, fs |-> {}]
FrozenSet(S) == [t |-> "frozenset", n |-> 0, s |-> <<>>, l |-> <<>>, fs |-> S]
Raise(exc) == [t |-> exc, n |-> 0, s |-> <<>>, l |-> <<>>, fs |-> {}]

Exceptions == {"AttributeError", "TypeError", "ValueError", "KeyError"}
IsError(v) == v.t \in Exceptions

\* Python truthiness (bool(value))
Truthy(v) ==
    CASE v.t = "None" -> FALSE
      [] v.t = "num" -> v.n # 0
      [] v.t = "str" -> Len(v.s) > 0
      [] v.t = "list" -> Len(v.l) > 0
      [] v.t = "frozenset" -> v.fs # {}
      [] OTHER -> FALSE

Abs(x) == IF x < 0 THEN -x ELSE x

\* -------------------------------------------------------------- strings
LowerCase == <<"a","b","c","d","e","f","g","h","i","j","k","l","m",
               "n","o","p","q","r","s","t","u","v","w","x","y","z">>
UpperCase == <<"A","B","C","D","E","F","G","H","I","J","K","L","M",
               "N","O","P","Q","R","S","T","U","V","W","X","Y","Z">>
Digits == <<"0","1","2","3","4","5","6","7","8","9">>

IndexOf(c, alphabet) ==
    IF \E i \in 1..Len(alphabet) : alphabet[i] = c
    THEN CHOOSE i \in 1..Len(alphabet) : alphabet[i] = c
    ELSE 0

\* str.upper() on one character
UpperChar(c) == IF IndexOf(c, LowerCase) > 0 THEN UpperCase[IndexOf(c, LowerCase)] ELSE c
\* str.upper()
Upper(chars) == [i \in 1..Len(chars) |-> UpperChar(chars[i])]

IsSpace(c) == c = " "

\* str.strip(): leading and trailing whitespace removed
RECURSIVE LStrip(_)
LStrip(chars) ==
    IF chars # <<>> /\ IsSpace(Head(chars)) THEN LStrip(Tail(chars)) ELSE chars
RECURSIVE RStrip(_)
RStrip(chars) ==
    IF chars # <<>> /\ IsSpace(chars[Len(chars)])
    THEN RStrip(SubSeq(chars, 1, Len(chars) - 1))
    ELSE chars
Strip(chars) == RStrip(LStrip(chars))

\* RE_NOT_ALPHANUM.sub("", value): every character outside [A-Z0-9] deleted
IsAlphaNum(c) == IndexOf(c, UpperCase) > 0 \/ IndexOf(c, Digits) > 0
RE_NOT_ALPHANUM_sub(chars) == SelectSeq(chars, IsAlphaNum)

\* value.replace("ca.", ""): every occurrence of "ca." removed, left to right
RECURSIVE ReplaceCa(_)
ReplaceCa(chars) ==
    IF Len(chars) >= 3 /\ SubSeq(chars, 1, 3) = <<"c", "a", ".">>
    THEN ReplaceCa(SubSeq(chars, 4, Len(chars)))
    ELSE IF chars = <<>> THEN <<>>
    ELSE <<Head(chars)>> \o ReplaceCa(Tail(chars))

\* the decimal numeral of a string of digits
RECURSIVE DigitsValue(_)
DigitsValue(chars) ==
    IF chars = <<>> THEN 0
    ELSE 10 * DigitsValue(SubSeq(chars, 1, Len(chars) - 1))
         + (IndexOf(chars[Len(chars)], Digits) - 1)

AllDigits(chars) ==
    chars # <<>> /\ \A i \in 1..Len(chars) : IndexOf(chars[i], Digits) > 0

\* int(str) / float(str) on whole numerals: surrounding whitespace is ignored, an
\* optional sign, then digits; anything else raises ValueError
ParseNumber(chars) ==
    LET body == Strip(chars) IN
    IF AllDigits(body) THEN Num(DigitsValue(body))
    ELSE IF body # <<>> /\ Head(body) = "-" /\ AllDigits(Tail(body))
         THEN Num(-DigitsValue(Tail(body)))
    ELSE Raise("ValueError")

\* int(value) and float(value)
ToNumber(v) ==
    CASE v.t = "num" -> v
      [] v.t = "str" -> ParseNumber(v.s)
      [] OTHER -> Raise("TypeError")

\* ------------------------------------------------------ scalar normalizers
normalize_str(value) ==
    IF Truthy(value)
    THEN IF value.t = "str" THEN Str(Strip(value.s)) ELSE Raise("AttributeError")
    ELSE Str(<<>>)

normalize_str_alphanum(value) ==
    LET v == normalize_str(value) IN
    IF IsError(v) THEN v ELSE Str(RE_NOT_ALPHANUM_sub(Upper(v.s)))

normalize_str_or_none(value) ==
    IF Truthy(value)
    THEN IF value.t = "str" THEN Str(Strip(value.s)) ELSE Raise("AttributeError")
    ELSE value

normalize_int(value) == IF Truthy(value) THEN ToNumber(value) ELSE None

\* v["value"] for v in recordedbyids
normalize_recordedbyids(recordedbyids) ==
    CASE recordedbyids.t = "None" -> FrozenSet({})
      [] recordedbyids.t = "list" ->
            FrozenSet({recordedbyids.l[i].value : i \in 1..Len(recordedbyids.l)})
      [] recordedbyids.t = "frozenset" ->
            \* iterating a frozenset of strings: str["value"] raises TypeError
            IF recordedbyids.fs = {} THEN FrozenSet({}) ELSE Raise("TypeError")
      [] recordedbyids.t = "str" ->
            IF recordedbyids.s = <<>> THEN FrozenSet({}) ELSE Raise("TypeError")
      [] OTHER -> Raise("TypeError")

\* ------------------------------------------------------- joint normalizers
\* A joint normalizer returns the tuple of normalized values; when a conversion
\* raises, every component of the tuple is the exception.
RaiseAll(exc, k) == [i \in 1..k |-> exc]

\* normalize_elevationdepth with the sign of the inferred elevation lost
\* (elevation = depth instead of elevation = -depth)
normalize_elevationdepth_unsigned(elevation, depth) ==
    LET e0 == IF elevation.t = "str" THEN Str(ReplaceCa(elevation.s)) ELSE elevation
        e1 == IF e0.t # "None" THEN ToNumber(e0) ELSE e0
        e2 == IF e1.t = "num" /\ e1.n < -6000000 THEN None ELSE e1
        d1 == IF depth.t # "None" THEN ToNumber(depth) ELSE depth
    IN  IF IsError(e1) THEN RaiseAll(e1, 2)
        ELSE IF IsError(d1) THEN RaiseAll(d1, 2)
        ELSE IF d1 = e2 THEN <<e2, d1>>
        ELSE IF d1.t # "None" /\ (e2.t = "None" \/ (d1.n # 0 /\ e2.n = 0))
             THEN <<d1, d1>>
        ELSE <<e2, d1>>

normalize_elevationdepth(elevation, depth) ==
    LET e0 == IF elevation.t = "str" THEN Str(ReplaceCa(elevation.s)) ELSE elevation
        e1 == IF e0.t # "None" THEN ToNumber(e0) ELSE e0
        e2 == IF e1.t = "num" /\ e1.n < -6000000 THEN None ELSE e1
        d1 == IF depth.t # "None" THEN ToNumber(depth) ELSE depth
    IN  IF IsError(e1) THEN RaiseAll(e1, 2)
        ELSE IF IsError(d1) THEN RaiseAll(d1, 2)
        ELSE IF d1 = e2 THEN <<e2, d1>>
        ELSE IF d1.t # "None" /\ (e2.t = "None" \/ (d1.n # 0 /\ e2.n = 0))
             THEN <<Num(-d1.n), d1>>
        ELSE <<e2, d1>>

\* normalize_yearmonthday with the day kept whenever the year is present
\* (int(day) if year and day)
normalize_yearmonthday_day_unguarded(year, month, day) ==
    LET y == IF Truthy(year) THEN ToNumber(year) ELSE None
        m == IF Truthy(y) /\ Truthy(month) THEN ToNumber(month) ELSE None
        d == IF Truthy(y) /\ Truthy(day) THEN ToNumber(day) ELSE None
    IN  IF IsError(y) THEN RaiseAll(y, 3)
        ELSE IF IsError(m) THEN RaiseAll(m, 3)
        ELSE IF IsError(d) THEN RaiseAll(d, 3)
        ELSE <<y, m, d>>

normalize_yearmonthday(year, month, day) ==
    LET y == IF Truthy(year) THEN ToNumber(year) ELSE None
        m == IF Truthy(y) /\ Truthy(month) THEN ToNumber(month) ELSE None
        d == IF Truthy(y) /\ Truthy(m) /\ Truthy(day) THEN ToNumber(day) ELSE None
    IN  IF IsError(y) THEN RaiseAll(y, 3)
        ELSE IF IsError(m) THEN RaiseAll(m, 3)
        ELSE IF IsError(d) THEN RaiseAll(d, 3)
        ELSE <<y, m, d>>

normalize_latlon(lat, long) ==
    IF ~Truthy(long) \/ ~Truthy(lat) THEN <<None, None>>
    ELSE LET lo == ToNumber(long)
             la == ToNumber(lat)
         IN  IF IsError(lo) THEN RaiseAll(lo, 2)
             ELSE IF IsError(la) THEN RaiseAll(la, 2)
             ELSE IF (lo.n = 0 /\ la.n = 0) \/ (lo.n = 360 /\ la.n = 360)
                  THEN <<None, None>>
             ELSE <<lo, la>>

\* ------------------------------------------------------------ the registry
\* FieldDescription(score_weight, normalize, get_score); score_weight is kept in
\* halves (2 -> 4, 1 -> 2, 0.5 -> 1) so that it is a whole number.
FieldDescription(w2, norm, score) ==
    [score_weight |-> w2, normalize |-> norm, get_score |-> score]

\* the keys of FIELDS in insertion order (the duplicate key "basisOfRecord" of the
\* dict literal keeps its first position and its last value)
FIELD_NAMES ==
    <<"typeStatus", "basisOfRecord", "recordedBy", "recordNumber", "recordedByIDs",
      "collectionCode", "catalogNumber", "individualCount", "family", "genus",
      "specificEpithet", "country", "city", "locality">>

FIELDS ==
    [f \in {FIELD_NAMES[i] : i \in 1..Len(FIELD_NAMES)} |->
        CASE f = "typeStatus" -> FieldDescription(4, "normalize_str", "get_score_string_exact")
          [] f = "basisOfRecord" -> FieldDescription(4, "normalize_str", "get_score_string_exact")
          [] f = "recordedBy" -> FieldDescription(4, "normalize_str", "get_score_string_jw")
          [] f = "recordNumber" -> FieldDescription(4, "normalize_str", "get_score_string_exact")
          [] f = "recordedByIDs" -> FieldDescription(4, "normalize_recordedbyids", "get_score_recordedbyids")
          [] f = "collectionCode" -> FieldDescription(4, "normalize_str_alphanum", "get_score_string_exact_or_include")
          [] f = "catalogNumber" -> FieldDescription(4, "normalize_str_alphanum", "get_score_string_exact_or_include")
          [] f = "individualCount" -> FieldDescription(2, "normalize_int", "get_score_numeric")
          [] f = "family" -> FieldDescription(2, "normalize_str", "get_score_string_jw")
          [] f = "genus" -> FieldDescription(2, "normalize_str", "get_score_string_jw")
          [] f = "specificEpithet" -> FieldDescription(2, "normalize_str", "get_score_string_jw")
          [] f = "country" -> FieldDescription(2, "normalize_str", "get_score_string_exact")
          [] f = "city" -> FieldDescription(2, "normalize_str_or_none", "get_score_string_jw")
          [] f = "locality" -> FieldDescription(1, "normalize_str_or_none", "get_score_string_jw")]

\* the keys of MULTI_FIELDS in insertion order
MULTI_FIELD_NAMES ==
    << <<"elevation", "depth">>, <<"year", "month", "day">>,
       <<"decimalLatitude", "decimalLongitude">> >>

MULTI_FIELDS ==
    [fs \in {MULTI_FIELD_NAMES[i] : i \in 1..Len(MULTI_FIELD_NAMES)} |->
        CASE fs = <<"elevation", "depth">> ->
                FieldDescription(2, "normalize_elevationdepth", "get_score_elevationdepth")
          [] fs = <<"year", "month", "day">> ->
                FieldDescription(2, "normalize_yearmonthday", "get_score_yearmonthday")
          [] fs = <<"decimalLatitude", "decimalLongitude">> ->
                FieldDescription(4, "normalize_latlon", "get_score_latlon")]

\* every field name an occurrence mapping is read or written under
AllFieldNames ==
    {FIELD_NAMES[i] : i \in 1..Len(FIELD_NAMES)}
    \cup UNION {{fs[j] : j \in 1..Len(fs)} : fs \in DOMAIN MULTI_FIELDS}

\* field_desc.normalize(value) for an entry of FIELDS
CallNormalize(name, value) ==
    CASE name = "normalize_str" -> normalize_str(value)
      [] name = "normalize_str_alphanum" -> normalize_str_alphanum(value)
      [] name = "normalize_str_or_none" -> normalize_str_or_none(value)
      [] name = "normalize_int" -> normalize_int(value)
      [] name = "normalize_recordedbyids" -> normalize_recordedbyids(value)

\* field_desc.normalize(*values) for an entry of MULTI_FIELDS
CallNormalizeMulti(name, values) ==
    CASE name = "normalize_elevationdepth" -> normalize_elevationdepth(values[1], values[2])
      [] name = "normalize_yearmonthday" -> normalize_yearmonthday(values[1], values[2], values[3])
      [] name = "normalize_latlon" -> normalize_latlon(values[1], values[2])

\* -------------------------------------------------------- occurrence mappings
\* A mapping gives every field name a value; a key the mapping does not hold is
\* the value Missing, which occurrence.get(key) reads as None and
\* occurrence[key] raises KeyError on.
Missing == [t |-> "missing", n |-> 0, s |-> <<>>, l |-> <<>>, fs |-> {}]
Get(occurrence, field_name) ==
    IF occurrence[field_name] = Missing THEN None ELSE occurrence[field_name]

\* the loop over FIELDS of normalize_occurrence from entry i on; an exception ends
\* the call with the fields before it already rewritten
RECURSIVE NormalizeFields(_, _)
NormalizeFields(occurrence, i) ==
    IF i > Len(FIELD_NAMES) THEN [occ |-> occurrence, raised |-> "ok"]
    ELSE LET field_name == FIELD_NAMES[i]
             value == CallNormalize(FIELDS[field_name].normalize, Get(occurrence, field_name))
         IN  IF IsError(value) THEN [occ |-> occurrence, raised |-> value.t]
             ELSE NormalizeFields([occurrence EXCEPT ![field_name] = value], i + 1)

\* the loop over MULTI_FIELDS of normalize_occurrence from entry i on
RECURSIVE NormalizeMultiFields(_, _)
NormalizeMultiFields(occurrence, i) ==
    IF i > Len(MULTI_FIELD_NAMES) THEN [occ |-> occurrence, raised |-> "ok"]
    ELSE LET field_names == MULTI_FIELD_NAMES[i]
             res == CallNormalizeMulti(MULTI_FIELDS[field_names].normalize,
                        [j \in 1..Len(field_names) |-> Get(occurrence, field_names[j])])
         IN  IF IsError(res[1]) THEN [occ |-> occurrence, raised |-> res[1].t]
             ELSE NormalizeMultiFields(
                    [f \in DOMAIN occurrence |->
                        IF \E j \in 1..Len(field_names) : field_names[j] = f
                        THEN res[CHOOSE j \in 1..Len(field_names) : field_names[j] = f]
                        ELSE occurrence[f]],
                    i + 1)

\* normalize_occurrence(occurrence): the mapping after the call and what it raised
normalize_occurrence(occurrence) ==
    LET single == NormalizeFields(occurrence, 1) IN
    IF single.raised # "ok" THEN single ELSE NormalizeMultiFields(single.occ, 1)

\* ------------------------------------------------------------------ scores
\* A scorer returns a float (k = "num", v in units of 1/Micro), np.nan (k = "nan"),
\* a Python list (k = "list") or raises (k = the exception).
Micro == 1000 * 1000
Nan == [k |-> "nan", v |-> 0]
Score(v) == [k |-> "num", v |-> v]
ScoreList == [k |-> "list", v |-> 0]
ScoreRaise(exc) == [k |-> exc, v |-> 0]

Max2(a, b) == IF a >= b THEN a ELSE b
Min2(a, b) == IF a <= b THEN a ELSE b
SetMin(S) == CHOOSE x \in S : \A y \in S : x <= y
SetMax(S) == CHOOSE x \in S : \A y \in S : x >= y

\* the float a / b for a >= 0, b > 0, in units of 1/Micro
Ratio(a, b) == (a \div b) * Micro + ((a % b) * Micro) \div b

\* jaro.jaro_winkler_metric(string1, string2): the Jaro metric with Winkler's
\* prefix boost (scaling 0.1, prefix at most 4, boost above 0.7)
RECURSIVE JaroMatch(_, _, _, _, _)
JaroMatch(s1, s2, i, used, matched1) ==
    IF i > Len(s1) THEN [used |-> used, matched1 |-> matched1]
    ELSE LET range == Max2(Max2(Len(s1), Len(s2)) \div 2 - 1, 0)
             cand == {j \in Max2(1, i - range)..Min2(Len(s2), i + range) :
                        j \notin used /\ s2[j] = s1[i]}
         IN  IF cand = {} THEN JaroMatch(s1, s2, i + 1, used, matched1)
             ELSE JaroMatch(s1, s2, i + 1, used \cup {SetMin(cand)}, Append(matched1, i))

RECURSIVE SortedSeq(_)
SortedSeq(S) == IF S = {} THEN <<>> ELSE <<SetMin(S)>> \o SortedSeq(S \ {SetMin(S)})

JaroWinkler(s1, s2) ==
    LET mt == JaroMatch(s1, s2, 1, {}, <<>>)
        m == Len(mt.matched1)
        in2 == SortedSeq(mt.used)
        t == Cardinality({k \in 1..m : s1[mt.matched1[k]] # s2[in2[k]]}) \div 2
        num == m * m * Len(s2) + m * m * Len(s1) + (m - t) * Len(s1) * Len(s2)
        den == 3 * Len(s1) * Len(s2) * m
        limit == Min2(4, Min2(Len(s1), Len(s2)))
        prefix == IF \E k \in 1..limit : s1[k] # s2[k]
                  THEN SetMin({k \in 1..limit : s1[k] # s2[k]}) - 1
                  ELSE limit
    IN  IF m = 0 THEN 0
        ELSE IF 10 * num > 7 * den
             THEN Ratio(10 * num + prefix * (den - num), 10 * den)
        ELSE Ratio(num, den)

get_score_string_jw(subject_value, related_value) ==
    IF subject_value.t = "None" \/ related_value.t = "None"
       \/ subject_value = Str(<<>>) \/ related_value = Str(<<>>)
    THEN Nan
    ELSE IF subject_value.t # "str" \/ related_value.t # "str" THEN ScoreRaise("TypeError")
    ELSE Score(JaroWinkler(subject_value.s, related_value.s))

get_score_string_exact(subject_value, related_value) ==
    IF subject_value = Str(<<>>) \/ related_value = Str(<<>>) THEN Nan
    ELSE IF subject_value.t # "str" \/ related_value.t # "str" THEN ScoreRaise("AttributeError")
    ELSE IF Upper(related_value.s) = Upper(subject_value.s) THEN Score(Micro) ELSE Score(0)

\* a in b for two strings
IsSubstring(a, b) ==
    \E i \in 0..(Len(b) - Len(a)) : SubSeq(b, i + 1, i + Len(a)) = a

\* get_score_string_exact_or_include with the substring test in one direction only
\* (subject_value in related_value)
get_score_string_exact_or_include_one_way(subject_value, related_value) ==
    IF subject_value = Str(<<>>) \/ related_value = Str(<<>>) THEN Nan
    ELSE IF subject_value.t # "str" \/ related_value.t # "str" THEN ScoreRaise("AttributeError")
    ELSE LET s == Upper(subject_value.s)
             r == Upper(related_value.s)
         IN  IF s = r THEN Score(Micro)
             ELSE IF IsSubstring(s, r) THEN Score((8 * Micro) \div 10)
             ELSE Score(0)

get_score_string_exact_or_include(subject_value, related_value) ==
    IF subject_value = Str(<<>>) \/ related_value = Str(<<>>) THEN Nan
    ELSE IF subject_value.t # "str" \/ related_value.t # "str" THEN ScoreRaise("AttributeError")
    ELSE LET s == Upper(subject_value.s)
             r == Upper(related_value.s)
         IN  IF s = r THEN Score(Micro)
             ELSE IF IsSubstring(s, r) \/ IsSubstring(r, s) THEN Score((8 * Micro) \div 10)
             ELSE Score(0)

\* candidates = [related_value]; the list value_for_max as the set of its numbers
get_score_numeric(subject_value, related_value) ==
    LET value_for_max ==
            (IF related_value.t # "None" THEN {related_value.n} ELSE {})
            \cup (IF Truthy(subject_value) THEN {subject_value.n} ELSE {})
    IN  IF value_for_max = {} \/ subject_value.t = "None" THEN Nan
        ELSE LET max_value == Abs(SetMax(value_for_max)) IN
             IF max_value = 0 THEN ScoreList
             ELSE IF related_value.t = "None" THEN Nan
             ELSE LET q == Ratio(Abs(related_value.n - subject_value.n), max_value)
                  IN  Score(Micro - q)

\* get_score_recordedbyids with an empty set scored as undefined
get_score_recordedbyids_empty_undefined(subject_value, related_value) ==
    IF subject_value.t # "frozenset" \/ related_value.t # "frozenset"
    THEN ScoreRaise("AttributeError")
    ELSE IF subject_value.fs = {} \/ related_value.fs = {} THEN Nan
    ELSE IF subject_value.fs \cap related_value.fs # {} THEN Score(Micro) ELSE Score(0)

get_score_recordedbyids(subject_value, related_value) ==
    IF subject_value.t # "frozenset" \/ related_value.t # "frozenset"
    THEN ScoreRaise("AttributeError")
    ELSE IF subject_value.fs \cap related_value.fs # {} THEN Score(Micro) ELSE Score(0)

\* datetime.date(year, month, day).toordinal(), 0 when the date is not valid
IsLeap(y) == y % 4 = 0 /\ (y % 100 # 0 \/ y % 400 = 0)
DaysInMonth(y, m) ==
    IF m = 2 THEN (IF IsLeap(y) THEN 29 ELSE 28)
    ELSE IF m \in {4, 6, 9, 11} THEN 30 ELSE 31
RECURSIVE DaysBeforeMonth(_, _)
DaysBeforeMonth(y, m) ==
    IF m <= 1 THEN 0 ELSE DaysBeforeMonth(y, m - 1) + DaysInMonth(y, m - 1)
ValidDate(y, m, d) ==
    y \in 1..9999 /\ m \in 1..12 /\ d >= 1 /\ d <= DaysInMonth(y, m)
ToOrdinal(y, m, d) ==
    (y - 1) * 365 + (y - 1) \div 4 - (y - 1) \div 100 + (y - 1) \div 400
    + DaysBeforeMonth(y, m) + d

\* the ordinal as a value: None, a number, or ValueError for an invalid date
get_occurrence_date(occ) ==
    IF Truthy(occ["year"])
    THEN LET y == occ["year"].n
             m == IF Truthy(occ["month"]) THEN occ["month"].n ELSE 6
             d == IF Truthy(occ["day"]) THEN occ["day"].n ELSE 15
         IN  IF ValidDate(y, m, d) THEN Num(ToOrdinal(y, m, d)) ELSE Raise("ValueError")
    ELSE None

\* math.exp(-d / 10) for a whole number of days d >= 0, in units of 1/Micro
ExpTable ==
    <<
      1000000, 904837, 818731, 740818, 670320, 606531, 548812, 496585, 449329, 406570,
      367879, 332871, 301194, 272532, 246597, 223130, 201897, 182684, 165299, 149569,
      135335, 122456, 110803, 100259, 90718, 82085, 74274, 67206, 60810, 55023,
      49787, 45049, 40762, 36883, 33373, 30197, 27324, 24724, 22371, 20242,
      18316, 16573, 14996, 13569, 12277, 11109, 10052, 9095, 8230, 7447,
      6738, 6097, 5517, 4992, 4517, 4087, 3698, 3346, 3028, 2739,
      2479, 2243, 2029, 1836, 1662, 1503, 1360, 1231, 1114, 1008,
      912, 825, 747, 676, 611, 553, 500, 453, 410, 371,
      335, 304, 275, 249, 225, 203, 184, 167, 151, 136,
      123, 112, 101, 91, 83, 75, 68, 61, 55, 50,
      45, 41, 37, 34, 30, 28, 25, 23, 20, 18,
      17, 15, 14, 12, 11, 10, 9, 8, 8, 7,
      6, 6, 5, 5, 4, 4, 3, 3, 3, 2,
      2, 2, 2, 2, 2, 1, 1, 1, 1, 1,
      1, 1, 1, 1, 1, 1, 0
    >>
ExpDecay(d) == IF d < Len(ExpTable) THEN ExpTable[d + 1] ELSE 0

get_score_yearmonthday(subject_occ, related_occ) ==
    LET subject_date == get_occurrence_date(subject_occ)
        related_date == get_occurrence_date(related_occ)
    IN  IF IsError(subject_date) THEN ScoreRaise(subject_date.t)
        ELSE IF IsError(related_date) THEN ScoreRaise(related_date.t)
        ELSE IF Truthy(subject_date) /\ Truthy(related_date)
             THEN Score(ExpDecay(Abs(subject_date.n - related_date.n)))
        ELSE Nan

\* Numbers p + q * sqrt(2) with whole p and q, as pairs <<p, q>>: the sines and
\* cosines of the multiples of 45 degrees the coordinates of this model are drawn
\* from are exact in them.
Plus(x, y) == <<x[1] + y[1], x[2] + y[2]>>
Minus(x, y) == <<x[1] - y[1], x[2] - y[2]>>
Times(x, y) == <<x[1] * y[1] + 2 * x[2] * y[2], x[1] * y[2] + x[2] * y[1]>>
\* -1, 0 or 1 as p + q * sqrt(2) is negative, zero or positive
Sign(x) ==
    IF x[1] = 0 /\ x[2] = 0 THEN 0
    ELSE IF x[1] >= 0 /\ x[2] >= 0 THEN 1
    ELSE IF x[1] <= 0 /\ x[2] <= 0 THEN -1
    ELSE IF x[1] > 0 THEN (IF x[1] * x[1] > 2 * x[2] * x[2] THEN 1 ELSE -1)
    ELSE (IF 2 * x[2] * x[2] > x[1] * x[1] THEN 1 ELSE -1)

\* 2 * math.cos(math.radians(a)) for a whole multiple a of 45 degrees
TwoCos(a) ==
    CASE a % 360 = 0 -> <<2, 0>>
      [] a % 360 = 45 -> <<0, 1>>
      [] a % 360 = 90 -> <<0, 0>>
      [] a % 360 = 135 -> <<0, -1>>
      [] a % 360 = 180 -> <<-2, 0>>
      [] a % 360 = 225 -> <<0, -1>>
      [] a % 360 = 270 -> <<0, 0>>
      [] a % 360 = 315 -> <<0, 1>>

\* The double h where rounding takes it below its exact value 0: for latitudes of
\* 45 and 135 degrees and longitudes 180 degrees apart, math.sin(d_lat / 2) ** 2 is
\* the double 0.4999999999999999, math.cos(lat_1) * math.cos(lat_2) the double -0.5
\* and math.sin(d_lng / 2) ** 2 the double 1.0, so that h = -1.1102230246251565e-16.
RoundsBelowZero(lat_1, lng_1, lat_2, lng_2) ==
    /\ {lat_1, lat_2} = {45, 135}
    /\ Abs(lng_2 - lng_1) = 180

\* h = sin(d_lat/2)^2 + cos(lat_1) cos(lat_2) sin(d_lng/2)^2 as h16 = 16 h, with
\* sin(x/2)^2 = (2 - 2 cos(x)) / 4. math.sqrt raises ValueError for h < 0 and
\* math.asin for sqrt(h) > 1, and ValueError is not a decimal.DecimalException.
\* asin(sqrt(h)) is 0 for h = 0; every other h of the multiples of 45 degrees is
\* above 0.07, where exp(-100 * distance) is below 1/Micro.
get_score_latlon(subject_occ, related_occ) ==
    LET lat_1 == subject_occ["decimalLatitude"]
        lng_1 == subject_occ["decimalLongitude"]
        lat_2 == related_occ["decimalLatitude"]
        lng_2 == related_occ["decimalLongitude"]
    IN  IF ~(Truthy(lat_1) /\ Truthy(lng_1) /\ Truthy(lat_2) /\ Truthy(lng_2)) THEN Nan
        ELSE LET h16 == Plus(Times(<<4, 0>>, Minus(<<2, 0>>, TwoCos(lat_2.n - lat_1.n))),
                             Times(Times(TwoCos(lat_1.n), TwoCos(lat_2.n)),
                                   Minus(<<2, 0>>, TwoCos(lng_2.n - lng_1.n))))
             IN  IF \/ Sign(h16) < 0
                    \/ Sign(Minus(<<16, 0>>, h16)) < 0
                    \/ RoundsBelowZero(lat_1.n, lng_1.n, lat_2.n, lng_2.n)
                 THEN ScoreRaise("ValueError")
                 ELSE IF Sign(h16) = 0 THEN Score(Micro)
                 ELSE Score(0)

get_score_elevationdepth(subject_occ, related_occ) ==
    get_score_numeric(subject_occ["elevation"], related_occ["elevation"])

\* ---------------------------------------------------------------- get_scores
\* field_desc.get_score(subject_value, related_value) for an entry of FIELDS
CallGetScore(name, subject_value, related_value) ==
    CASE name = "get_score_string_exact" -> get_score_string_exact(subject_value, related_value)
      [] name = "get_score_string_jw" -> get_score_string_jw(subject_value, related_value)
      [] name = "get_score_string_exact_or_include" ->
            get_score_string_exact_or_include(subject_value, related_value)
      [] name = "get_score_numeric" -> get_score_numeric(subject_value, related_value)
      [] name = "get_score_recordedbyids" -> get_score_recordedbyids(subject_value, related_value)

\* field_desc.get_score(subject_occ, related_occ) for an entry of MULTI_FIELDS
CallGetScoreMulti(name, subject_occ, related_occ) ==
    CASE name = "get_score_elevationdepth" -> get_score_elevationdepth(subject_occ, related_occ)
      [] name = "get_score_yearmonthday" -> get_score_yearmonthday(subject_occ, related_occ)
      [] name = "get_score_latlon" -> get_score_latlon(subject_occ, related_occ)

\* labels, in the order get_scores appends them
Labels ==
    FIELD_NAMES \o [i \in 1..Len(MULTI_FIELD_NAMES) |-> MULTI_FIELD_NAMES[i][1]]
GLOBAL == "$global"

\* the weights of an unweighted mean (every score_weight ignored)
Weights_unweighted == [i \in 1..Len(Labels) |-> 2]

\* weights, in the order get_scores appends them (in halves)
Weights ==
    [i \in 1..Len(FIELD_NAMES) |-> FIELDS[FIELD_NAMES[i]].score_weight]
    \o [i \in 1..Len(MULTI_FIELD_NAMES) |-> MULTI_FIELDS[MULTI_FIELD_NAMES[i]].score_weight]

\* score_values, in the order get_scores appends them; subject_occ[field_name]
\* raises KeyError on a key the mapping does not hold
ScoreValues(subject_occ, related_occ) ==
    [i \in 1..Len(FIELD_NAMES) |->
        LET field_name == FIELD_NAMES[i] IN
        IF subject_occ[field_name] = Missing \/ related_occ[field_name] = Missing
        THEN ScoreRaise("KeyError")
        ELSE CallGetScore(FIELDS[field_name].get_score,
                          subject_occ[field_name], related_occ[field_name])]
    \o [i \in 1..Len(MULTI_FIELD_NAMES) |->
        LET field_names == MULTI_FIELD_NAMES[i] IN
        IF \E j \in 1..Len(field_names) :
               subject_occ[field_names[j]] = Missing \/ related_occ[field_names[j]] = Missing
        THEN ScoreRaise("KeyError")
        ELSE CallGetScoreMulti(MULTI_FIELDS[field_names].get_score, subject_occ, related_occ)]

\* sums over the entries from i on that ma.masked_invalid leaves unmasked
RECURSIVE MaskedSum(_, _, _)
MaskedSum(values, weights, i) ==
    IF i > Len(values) THEN [wsum |-> 0, scl |-> 0]
    ELSE LET rest == MaskedSum(values, weights, i + 1) IN
         IF values[i].k = "nan" THEN rest
         ELSE [wsum |-> rest.wsum + weights[i] * values[i].v, scl |-> rest.scl + weights[i]]

\* ma.average(ma.masked_invalid(score_array), axis=0, weights=weights)
MaskedAverage(values, weights) ==
    LET s == MaskedSum(values, weights, 1) IN
    IF s.scl = 0 THEN Nan
    ELSE IF s.wsum >= 0 THEN Score(s.wsum \div s.scl)
    ELSE Score(-((-s.wsum) \div s.scl))

\* np.around(x, decimals=3): round half to even, from 1/Micro to 1/1000
Around3(v) ==
    LET a == Abs(v)
        q == a \div 1000
        r == a % 1000
        up == r > 500 \/ (r = 500 /\ q % 2 = 1)
        m == IF up THEN q + 1 ELSE q
    IN  IF v < 0 THEN -m ELSE m

\* the emitted score with every falsy value, 0 included, turned into None
Emit_falsy_absent(score) ==
    IF score.k = "nan" \/ Around3(score.v) = 0 THEN [none |-> TRUE, v |-> 0]
    ELSE [none |-> FALSE, v |-> Around3(score.v)]

\* key: None if np.isnan(value) else value
Emit(score) == IF score.k = "nan" THEN [none |-> TRUE, v |-> 0]
               ELSE [none |-> FALSE, v |-> Around3(score.v)]

AllLabels == {Labels[i] : i \in 1..Len(Labels)} \cup {GLOBAL}
NoScores == [key \in AllLabels |-> [none |-> TRUE, v |-> 0]]
NoResult == [raised |-> "none", scores |-> NoScores]
Raised(exc) == [raised |-> exc, scores |-> NoScores]

\* np.array(score_values) on a list holding a Python list among the floats raises
\* ValueError (inhomogeneous shape); older numpy builds an object array on which
\* ma.masked_invalid raises TypeError
RaggedArrayErrors == {"ValueError", "TypeError"}

\* get_scores(subject_occ, related_occ): the set of outcomes the call can have
get_scores(subject_occ, related_occ) ==
    LET score_values == ScoreValues(subject_occ, related_occ)
        failed == {i \in 1..Len(score_values) : score_values[i].k \in Exceptions}
    IN  IF failed # {} THEN {Raised(score_values[SetMin(failed)].k)}
        ELSE IF \E i \in 1..Len(score_values) : score_values[i].k = "list"
             THEN {Raised(exc) : exc \in RaggedArrayErrors}
        ELSE LET score_average == MaskedAverage(score_values, Weights) IN
             {[raised |-> "ok",
               scores |-> [key \in AllLabels |->
                    IF key = GLOBAL THEN Emit(score_average)
                    ELSE Emit(score_values[CHOOSE i \in 1..Len(Labels) : Labels[i] = key])]]}

\* ---------------------------------------------------------------- the inputs
\* The registered entries: the 14 of FIELDS, then the 3 of MULTI_FIELDS, each the
\* tuple of its field names.
ENTRIES ==
    [i \in 1..Len(FIELD_NAMES) |-> <<FIELD_NAMES[i]>>] \o MULTI_FIELD_NAMES

TextValues ==
    {None, Str(<<>>), Str(<<"A", "b">>), Str(<<" ", "a", "B", " ">>), Str(<<"A">>),
     Str(<<"A", ".", "1">>), Str(<<"a", "-", "1">>)}
IdRecord(v) == [type |-> "ORCID", value |-> v]
IdsValues ==
    {None, List(<<>>), List(<<IdRecord("id1")>>), List(<<IdRecord("id2")>>),
     List(<<IdRecord("id1"), IdRecord("id2"), IdRecord("id1")>>)}
Numbers == {Num(k) : k \in -MaxInt..MaxInt}
CountValues == {None, Str(<<"2">>), Str(<<"x">>)} \cup Numbers
ElevationValues == {None, Num(-6000001), Str(<<"c", "a", ".", "1">>)} \cup Numbers
DepthValues == {None} \cup Numbers
YearValues == {None, Num(0), Num(2022), Str(<<"2", "0", "2", "3">>)}
MonthValues == {None, Num(0), Num(5), Num(6)}
DayValues == {None, Num(0), Num(22), Num(23), Num(31)}
LatitudeValues ==
    {None, Num(0), Num(90), Num(360), Str(<<"0">>), Str(<<"9", "0">>),
     Str(<<"a", "b", "c">>)}
LongitudeValues ==
    {None, Num(0), Num(45), Num(90), Num(180), Num(360), Str(<<"9", "0">>)}

\* the raw values one entry is drawn from when it is the only one present
FullValues(e) ==
    CASE ENTRIES[e] = <<"recordedByIDs">> -> {<<v>> : v \in IdsValues}
      [] ENTRIES[e] = <<"individualCount">> -> {<<v>> : v \in CountValues}
      [] ENTRIES[e] = <<"elevation", "depth">> -> ElevationValues \X DepthValues
      [] ENTRIES[e] = <<"year", "month", "day">> -> YearValues \X MonthValues \X DayValues
      [] ENTRIES[e] = <<"decimalLatitude", "decimalLongitude">> ->
            LatitudeValues \X LongitudeValues
      [] OTHER -> {<<v>> : v \in TextValues}

\* the raw values one entry is drawn from when two entries are present
CoreValues(e) ==
    CASE ENTRIES[e] = <<"recordedByIDs">> ->
            {<<None>>, <<List(<<IdRecord("id1")>>)>>, <<List(<<IdRecord("id2")>>)>>}
      [] ENTRIES[e] = <<"individualCount">> -> {<<None>>, <<Num(1)>>, <<Num(2)>>}
      [] ENTRIES[e] = <<"elevation", "depth">> ->
            {<<None, None>>, <<Num(1), None>>, <<None, Num(2)>>}
      [] ENTRIES[e] = <<"year", "month", "day">> ->
            {<<None, None, None>>, <<Num(2022), Num(5), Num(22)>>,
             <<Num(2022), Num(5), Num(23)>>}
      [] ENTRIES[e] = <<"decimalLatitude", "decimalLongitude">> ->
            {<<None, None>>, <<Num(90), Num(90)>>, <<Num(90), Num(180)>>}
      [] OTHER -> {<<None>>, <<Str(<<"A", "b">>)>>, <<Str(<<"A">>)>>}

\* the values of the related occurrence when two entries are present: the entry
\* absent, or one value that scores 1 against one core value of the subject and
\* less against the other
CoreRelatedValues(e) ==
    CASE ENTRIES[e] = <<"recordedByIDs">> -> {<<None>>, <<List(<<IdRecord("id2")>>)>>}
      [] ENTRIES[e] = <<"individualCount">> -> {<<None>>, <<Num(2)>>}
      [] ENTRIES[e] = <<"elevation", "depth">> -> {<<None, None>>, <<None, Num(2)>>}
      [] ENTRIES[e] = <<"year", "month", "day">> ->
            {<<None, None, None>>, <<Num(2022), Num(5), Num(23)>>}
      [] ENTRIES[e] = <<"decimalLatitude", "decimalLongitude">> ->
            {<<None, None>>, <<Num(90), Num(180)>>}
      [] OTHER -> {<<None>>, <<Str(<<"A">>)>>}

\* the mapping holding the values v1 under the fields of entry e1, v2 under
\* those of e2, and no other key
MakeOccurrence(e1, v1, e2, v2) ==
    [f \in AllFieldNames |->
        IF \E j \in 1..Len(ENTRIES[e1]) : ENTRIES[e1][j] = f
        THEN v1[CHOOSE j \in 1..Len(ENTRIES[e1]) : ENTRIES[e1][j] = f]
        ELSE IF \E j \in 1..Len(ENTRIES[e2]) : ENTRIES[e2][j] = f
        THEN v2[CHOOSE j \in 1..Len(ENTRIES[e2]) : ENTRIES[e2][j] = f]
        ELSE Missing]

\* the values the related occurrence takes for an entry when the subject ranges
\* over all of FullValues
RelatedValues(e) ==
    CASE ENTRIES[e] = <<"recordedByIDs">> ->
            {<<None>>, <<List(<<IdRecord("id1")>>)>>, <<List(<<>>)>>}
      [] ENTRIES[e] = <<"individualCount">> ->
            {<<None>>, <<Num(0)>>, <<Num(-1)>>, <<Num(2)>>}
      [] ENTRIES[e] = <<"elevation", "depth">> ->
            {<<None, None>>, <<Num(0), None>>, <<Num(-1), None>>, <<Num(2), None>>,
             <<None, Num(1)>>}
      [] ENTRIES[e] = <<"year", "month", "day">> ->
            {<<None, None, None>>, <<Num(2022), None, None>>,
             <<Num(2022), Num(5), Num(23)>>, <<Num(2023), Num(6), Num(31)>>}
      [] ENTRIES[e] = <<"decimalLatitude", "decimalLongitude">> ->
            {<<None, None>>, <<Num(90), Num(90)>>, <<Num(90), Num(180)>>,
             <<Num(0), Num(180)>>, <<Num(-90), Num(135)>>}
      [] OTHER -> {<<None>>, <<Str(<<>>)>>, <<Str(<<"A", "b">>)>>, <<Str(<<"A">>)>>,
                   <<Str(<<"A", "1">>)>>}

\* ------------------------------------------------------- the storage server
\* None in a request body, NULL in a column
Null == "None"

\* get_hash(b): the SHA-256 digest of the serialized occurrence, taken to differ
\* for different occurrences
get_hash(b) == <<"sha256", b>>

\* the rows storage.User(...), storage.Occurrence(...), storage.OccurrenceRelation(...)
\* and storage.Event(...) once inserted; the autoincremented id of a row is its
\* position in the table, timestamps are left out
User(id, name, orcid) == [id |-> id, name |-> name, orcid |-> orcid]
Occurrence(id, gbifKey, data) ==
    [id |-> id, gbifKey |-> gbifKey, datasetKey |-> Null, institutionKey |-> Null,
     publishingOrgKey |-> Null, data |-> data, dataHash |-> get_hash(data)]
OccurrenceRelation(relatedOccurrenceId, decision, isNewDecision) ==
    [relatedOccurrenceId |-> relatedOccurrenceId, decision |-> decision,
     isNewDecision |-> isNewDecision]
Event(id, userId, institutionKey, datasetKey, refOccurrenceId, relations) ==
    [id |-> id, userId |-> userId, institutionKey |-> institutionKey,
     datasetKey |-> datasetKey, refOccurrenceId |-> refOccurrenceId,
     relations |-> relations]

\* the rows selected by
\*   .where(storage.User.name==user.name and storage.User.orcid==user.orcid)
\* Python evaluates `x and y` to x when bool(x) is False, and bool() of the
\* comparison of a column with a bound value is False: the filter is the
\* comparison of the name alone.
UserQuery(rows, user) == {i \in 1..Len(rows) : rows[i].name = user.name}

\* get_user(session, user): the table after the call, the id of the row returned
\* and what the call raised; Query.scalar() is None for no row and raises
\* MultipleResultsFound for more than one
get_user(rows, user) ==
    LET found == UserQuery(rows, user) IN
    IF found = {}
    THEN [users |-> Append(rows, User(Len(rows) + 1, user.name, user.orcid)),
          id |-> Len(rows) + 1, raised |-> "ok"]
    ELSE IF Cardinality(found) > 1
         THEN [users |-> rows, id |-> 0, raised |-> "MultipleResultsFound"]
    ELSE [users |-> rows, id |-> CHOOSE i \in found : TRUE, raised |-> "ok"]

\* get_occurrence(session, occurrence); occurrence['key'] raises KeyError on a
\* mapping without that key
get_occurrence(rows, occurrence) ==
    LET found == {i \in 1..Len(rows) : rows[i].dataHash = get_hash(occurrence)} IN
    IF ~occurrence.has_key
    THEN [occurrences |-> rows, id |-> 0, raised |-> "KeyError"]
    ELSE IF found = {}
         THEN [occurrences |-> Append(rows, Occurrence(Len(rows) + 1, occurrence.key, occurrence)),
               id |-> Len(rows) + 1, raised |-> "ok"]
    ELSE IF Cardinality(found) > 1
         THEN [occurrences |-> rows, id |-> 0, raised |-> "MultipleResultsFound"]
    ELSE [occurrences |-> rows, id |-> CHOOSE i \in found : TRUE, raised |-> "ok"]

\* relationsObj = [storage.OccurrenceRelation(...) for relation in data.relations]
\* from relation i on: every get_occurrence commits its row; an exception ends
\* the comprehension
RECURSIVE RelationsObj(_, _, _)
RelationsObj(rows, relations, i) ==
    IF i > Len(relations) THEN [occurrences |-> rows, relationsObj |-> <<>>, raised |-> "ok"]
    ELSE LET o == get_occurrence(rows, relations[i].occurrence) IN
         IF o.raised # "ok"
         THEN [occurrences |-> o.occurrences, relationsObj |-> <<>>, raised |-> o.raised]
         ELSE LET rest == RelationsObj(o.occurrences, relations, i + 1) IN
              [occurrences |-> rest.occurrences,
               relationsObj |->
                    <<OccurrenceRelation(o.id, relations[i].decision,
                                         relations[i].is_new_decision)>>
                    \o rest.relationsObj,
               raised |-> rest.raised]

\* occurrenceRelations(data, session): the three tables after the request and
\* what it raised. The user and the occurrences are committed as they are
\* created; the event is added and committed last, so a request that raises
\* leaves the rows committed before the exception and no event.
occurrenceRelations(userRows, occurrenceRows, eventRows, data) ==
    LET user == get_user(userRows, data.user)
        rels == RelationsObj(occurrenceRows, data.relations, 1)
        ref == get_occurrence(rels.occurrences, data.refOccurrence)
    IN  IF user.raised # "ok"
        THEN [users |-> user.users, occurrences |-> occurrenceRows,
              events |-> eventRows, raised |-> user.raised]
        ELSE IF rels.raised # "ok"
        THEN [users |-> user.users, occurrences |-> rels.occurrences,
              events |-> eventRows, raised |-> rels.raised]
        ELSE IF ref.raised # "ok"
        THEN [users |-> user.users, occurrences |-> ref.occurrences,
              events |-> eventRows, raised |-> ref.raised]
        ELSE [users |-> user.users, occurrences |-> ref.occurrences,
              events |-> Append(eventRows,
                            Event(Len(eventRows) + 1, user.id, data.institutionKey,
                                  data.datasetKey, ref.id, rels.relationsObj)),
              raised |-> "ok"]

\* the request bodies (OccurrenceRelationsModel)
UserNames == {"ann", "bob"}
OrcidValues == {Null, "0000-0001", "0000-0002"}
OccurrenceDict(key) == [has_key |-> TRUE, key |-> key]
NoKeyDict == [has_key |-> FALSE, key |-> 0]
RefOccurrenceValues == {OccurrenceDict(1), NoKeyDict}
RelationsValues ==
    {<<>>,
     <<[occurrence |-> OccurrenceDict(2), decision |-> TRUE, is_new_decision |-> TRUE]>>,
     <<[occurrence |-> NoKeyDict, decision |-> FALSE, is_new_decision |-> TRUE]>>}
Requests ==
    [institutionKey : {"institution"}, datasetKey : {"dataset"},
     user : [name : UserNames, orcid : OrcidValues],
     refOccurrence : RefOccurrenceValues, relations : RelationsValues]
\* no request handled yet
NoRequest ==
    [institutionKey |-> "", datasetKey |-> "", user |-> [name |-> "", orcid |-> Null],
     refOccurrence |-> NoKeyDict, relations |-> <<>>]

\* ------------------------------------------------------------- the machine
\* one entry present: the subject with any of its values
InitOneEntry ==
    \E e \in DOMAIN ENTRIES :
        \E s \in FullValues(e), r \in RelatedValues(e) :
            /\ rawSubject = MakeOccurrence(e, s, e, s)
            /\ rawRelated = MakeOccurrence(e, r, e, r)

\* two entries present, with their core values
InitTwoEntries ==
    \E e1 \in DOMAIN ENTRIES, e2 \in DOMAIN ENTRIES :
        /\ e1 < e2
        /\ \E s1 \in CoreValues(e1), s2 \in CoreValues(e2),
              r1 \in CoreRelatedValues(e1), r2 \in CoreRelatedValues(e2) :
            /\ rawSubject = MakeOccurrence(e1, s1, e2, s2)
            /\ rawRelated = MakeOccurrence(e1, r1, e2, r2)

Init ==
    /\ (InitOneEntry \/ InitTwoEntries)
    /\ subject = rawSubject
    /\ related = rawRelated
    /\ nSubject = 0
    /\ nRelated = 0
    /\ raised = "ok"
    /\ result = NoResult
    /\ users = <<>>
    /\ occurrences = <<>>
    /\ events = <<>>
    /\ request = NoRequest
    /\ nRequests = 0

\* The caller normalizes the subject, then the related occurrence, and then either
\* scores the pair or normalizes both once more.

\* normalize_occurrence(subject)
NormalizeSubject ==
    /\ raised = "ok"
    /\ result = NoResult
    /\ nSubject < MaxNormalize
    /\ nSubject = nRelated
    /\ LET out == normalize_occurrence(subject) IN
        /\ subject' = out.occ
        /\ raised' = out.raised
        /\ nSubject' = IF out.raised = "ok" THEN nSubject + 1 ELSE nSubject
    /\ UNCHANGED <<related, rawSubject, rawRelated, nRelated, result>>
    /\ UNCHANGED appVars

\* normalize_occurrence(related)
NormalizeRelated ==
    /\ raised = "ok"
    /\ result = NoResult
    /\ nRelated < nSubject
    /\ LET out == normalize_occurrence(related) IN
        /\ related' = out.occ
        /\ raised' = out.raised
        /\ nRelated' = IF out.raised = "ok" THEN nRelated + 1 ELSE nRelated
    /\ UNCHANGED <<subject, rawSubject, rawRelated, nSubject, result>>
    /\ UNCHANGED appVars

\* get_scores normalizing its two arguments in place before it returns
GetScores_normalizing ==
    /\ raised = "ok"
    /\ result = NoResult
    /\ nSubject >= 1
    /\ nRelated = nSubject
    /\ \E out \in get_scores(subject, related) :
        /\ result' = out
        /\ raised' = IF out.raised = "ok" THEN "ok" ELSE out.raised
    /\ subject' = normalize_occurrence(subject).occ
    /\ related' = normalize_occurrence(related).occ
    /\ UNCHANGED <<rawSubject, rawRelated, nSubject, nRelated>>
    /\ UNCHANGED appVars

\* get_scores(subject, related) on two normalized occurrences
GetScores ==
    /\ raised = "ok"
    /\ result = NoResult
    /\ nSubject >= 1
    /\ nRelated = nSubject
    /\ \E out \in get_scores(subject, related) :
        /\ result' = out
        /\ raised' = IF out.raised = "ok" THEN "ok" ELSE out.raised
    /\ UNCHANGED <<subject, related, rawSubject, rawRelated, nSubject, nRelated>>
    /\ UNCHANGED appVars

Next == NormalizeSubject \/ NormalizeRelated \/ GetScores

Spec == Init /\ [][Next]_vars

\* ------------------------------------------------ the storage server machine
\* the tables are empty at start-up (storage.initialize creates them); no
\* occurrence is being matched
InitApp ==
    /\ users = <<>>
    /\ occurrences = <<>>
    /\ events = <<>>
    /\ request = NoRequest
    /\ nRequests = 0
    /\ rawSubject = [f \in AllFieldNames |-> Missing]
    /\ rawRelated = rawSubject
    /\ subject = rawSubject
    /\ related = rawSubject
    /\ nSubject = 0
    /\ nRelated = 0
    /\ raised = "ok"
    /\ result = NoResult

\* POST /newOcurrenceRelations with body data; the handler runs to its end
\* without awaiting, one request at a time
NewOcurrenceRelations ==
    /\ nRequests < MaxRequests
    /\ \E data \in Requests :
        LET out == occurrenceRelations(users, occurrences, events, data) IN
        /\ users' = out.users
        /\ occurrences' = out.occurrences
        /\ events' = out.events
        /\ request' = data
        /\ raised' = out.raised
    /\ nRequests' = nRequests + 1
    /\ UNCHANGED <<subject, related, rawSubject, rawRelated, nSubject, nRelated, result>>

NextApp == NewOcurrenceRelations

SpecApp == InitApp /\ [][NextApp]_vars

\* ================================================================= claims
\* a normalized value that carries no data: None, the empty string, the empty set
IsAbsent(v) == v = None \/ v = Str(<<>>) \/ v = FrozenSet({})
\* both occurrences are normalized and get_scores returned a result for them
Scored == result.raised = "ok"
\* the registered entries whose emitted score is defined
DefinedLabels == {i \in 1..Len(Labels) : ~result.scores[Labels[i]].none}

\* C1: a second normalize_occurrence on an already normalized occurrence raises
\* nothing and leaves every registered field as the first call left it.
C1_NormalizeIdempotent ==
    [][(NormalizeSubject /\ nSubject >= 1) => (raised' = "ok" /\ subject' = subject)]_vars

\* C2: scoring is symmetric: get_scores(related, subject) gives, for every
\* registered entry, the score (or the undefined) that get_scores(subject, related)
\* gave.
C2_ScoringSymmetric ==
    (result.raised # "none") => (result \in get_scores(related, subject))

\* C3: every per-field score get_scores returns is undefined or within [0, 1].
C3_FieldScoreRange ==
    Scored => \A i \in 1..Len(Labels) :
        result.scores[Labels[i]].none
        \/ (result.scores[Labels[i]].v >= 0 /\ result.scores[Labels[i]].v <= 1000)

\* C4: $global is undefined or within [0, 1], and undefined exactly when every
\* per-field score is undefined.
C4_GlobalRange ==
    Scored =>
        /\ result.scores[GLOBAL].none
           \/ (result.scores[GLOBAL].v >= 0 /\ result.scores[GLOBAL].v <= 1000)
        /\ result.scores[GLOBAL].none <=> (DefinedLabels = {})

\* the weights the registry table declares, in halves: 2 for typeStatus,
\* basisOfRecord, recordedBy, recordNumber, recordedByIDs, collectionCode,
\* catalogNumber and latitude/longitude, 0.5 for locality, 1 for the others
TableWeight(label) ==
    IF label \in {"typeStatus", "basisOfRecord", "recordedBy", "recordNumber",
                  "recordedByIDs", "collectionCode", "catalogNumber", "decimalLatitude"}
    THEN 4
    ELSE IF label = "locality" THEN 1 ELSE 2

RECURSIVE SumOver(_, _)
SumOver(S, f) ==
    IF S = {} THEN 0
    ELSE LET x == CHOOSE y \in S : TRUE IN f[x] + SumOver(S \ {x}, f)

\* C5: with at least one defined per-field score, $global is the sum of
\* weight * score over the entries whose score is defined, divided by the sum of
\* their weights (the table's weights), rounded to three decimals like every
\* emitted score; undefined entries add to neither sum.
C5_GlobalIsWeightedMean ==
    (Scored /\ DefinedLabels # {}) =>
        LET values == ScoreValues(subject, related)
            numer == SumOver(DefinedLabels,
                        [i \in DefinedLabels |-> TableWeight(Labels[i]) * values[i].v])
            denom == SumOver(DefinedLabels,
                        [i \in DefinedLabels |-> TableWeight(Labels[i])])
            mean == IF numer >= 0 THEN numer \div denom ELSE -((-numer) \div denom)
        IN  result.scores[GLOBAL] = [none |-> FALSE, v |-> Around3(mean)]

\* C5 witness: three entries with a defined score and weights 2, 2 and 0.5
\* (recordedBy, recordedByIDs, locality), and a $global strictly between 0 and 1
C5_Witness ==
    /\ Scored
    /\ ~result.scores["recordedBy"].none
    /\ ~result.scores["locality"].none
    /\ ~result.scores["recordedByIDs"].none
    /\ result.scores[GLOBAL].v > 0
    /\ result.scores[GLOBAL].v < 1000

\* C6: an occurrence with at least one non-absent registered field, scored against
\* an identical copy of itself, has $global = 1.
C6_IdenticalGlobalIsOne ==
    (/\ result.raised # "none"
     /\ rawSubject = rawRelated
     /\ subject = related
     /\ \E f \in AllFieldNames : ~IsAbsent(subject[f]))
    => (Scored /\ result.scores[GLOBAL] = [none |-> FALSE, v |-> 1000])

\* the entries present (normalized value not absent) on both sides
SharedEntries == {i \in 1..Len(Labels) :
                    ~IsAbsent(subject[Labels[i]]) /\ ~IsAbsent(related[Labels[i]])}

\* C7: when exactly one registered entry is present on both sides, $global is
\* that entry's score.
C7_SoleSharedFieldIsGlobal ==
    (result.raised # "none" /\ Cardinality(SharedEntries) = 1) =>
        LET e == CHOOSE i \in SharedEntries : TRUE IN
        Scored /\ result.scores[GLOBAL] = result.scores[Labels[e]]

\* C8: normalize_latlon returns (absent, absent) exactly when an input is absent
\* or the parsed pair is (0, 0) or (360, 360); otherwise both stay defined numbers.
C8_LatLonSentinels ==
    LET lat == Get(rawSubject, "decimalLatitude")
        long == Get(rawSubject, "decimalLongitude")
        sentinel == \/ lat = None
                    \/ long = None
                    \/ (ToNumber(lat).n = 0 /\ ToNumber(long).n = 0)
                    \/ (ToNumber(lat).n = 360 /\ ToNumber(long).n = 360)
    IN  (nSubject = 1) =>
            IF sentinel
            THEN subject["decimalLatitude"] = None /\ subject["decimalLongitude"] = None
            ELSE subject["decimalLatitude"].t = "num" /\ subject["decimalLongitude"].t = "num"

\* the input (elevation, depth) of the subject is a pair of absent or numeric values
NumericElevationInput ==
    /\ Get(rawSubject, "elevation").t \in {"None", "num"}
    /\ Get(rawSubject, "depth").t \in {"None", "num"}

\* C9 as stated: if depth # elevation, depth is defined and elevation was absent
\* or zero, then elevation = -depth and depth is unchanged; in every other case
\* the pair is returned unchanged.
C9_ElevationDepthAsStated ==
    LET elevation == Get(rawSubject, "elevation")
        depth == Get(rawSubject, "depth")
    IN  (nSubject = 1 /\ NumericElevationInput) =>
            IF depth # elevation /\ depth # None /\ (elevation = None \/ elevation = Num(0))
            THEN subject["elevation"] = Num(-depth.n) /\ subject["depth"] = depth
            ELSE subject["elevation"] = elevation /\ subject["depth"] = depth

\* C9 amended: an elevation below -6000000 is first replaced by absent; then, if
\* depth # elevation, depth is defined and elevation is absent or zero,
\* elevation = -depth and depth is unchanged; otherwise the pair is as it was
\* after that replacement.
C9_ElevationDepth ==
    LET given == Get(rawSubject, "elevation")
        elevation == IF given # None /\ given.n < -6000000 THEN None ELSE given
        depth == Get(rawSubject, "depth")
    IN  (nSubject = 1 /\ NumericElevationInput) =>
            IF depth # elevation /\ depth # None /\ (elevation = None \/ elevation = Num(0))
            THEN subject["elevation"] = Num(-depth.n) /\ subject["depth"] = depth
            ELSE subject["elevation"] = elevation /\ subject["depth"] = depth

\* C9 witness: elevation 0 with depth 2 was normalized to elevation -2
C9_Witness ==
    /\ nSubject = 1
    /\ Get(rawSubject, "elevation") = Num(0)
    /\ Get(rawSubject, "depth") = Num(2)
    /\ subject["elevation"] = Num(-2)
    /\ subject["depth"] = Num(2)

\* int(value), absent staying absent
IntOrAbsent(v) == IF v = None THEN None ELSE ToNumber(v)

\* a defined day implies a defined month, a defined month a defined year
DateChain(occ) ==
    /\ (occ["day"] # None => occ["month"] # None)
    /\ (occ["month"] # None => occ["year"] # None)

\* C10 as stated: year absent forces month and day absent; year present and
\* month absent forces day absent; otherwise month and day are the integer
\* values of the inputs; hence day defined => month defined => year defined.
C10_DateAsStated ==
    LET year == Get(rawSubject, "year")
        month == Get(rawSubject, "month")
        day == Get(rawSubject, "day")
    IN  (nSubject = 1) =>
            /\ IF year = None THEN subject["month"] = None /\ subject["day"] = None
               ELSE IF month = None THEN subject["day"] = None
               ELSE subject["month"] = IntOrAbsent(month) /\ subject["day"] = IntOrAbsent(day)
            /\ DateChain(subject)

\* absent or zero
AbsentOrZero(v) == v = None \/ v = Num(0)

\* C10 amended: a value of zero counts as absent. Year absent or zero forces
\* month and day absent; year present and month absent or zero forces month and
\* day absent; otherwise month is the integer value of the input and day is the
\* integer value of the input, absent when the input day is absent or zero.
\* Hence day defined => month defined => year defined.
C10_Date ==
    LET year == Get(rawSubject, "year")
        month == Get(rawSubject, "month")
        day == Get(rawSubject, "day")
    IN  (nSubject = 1) =>
            /\ IF AbsentOrZero(year) THEN subject["month"] = None /\ subject["day"] = None
               ELSE IF AbsentOrZero(month)
                    THEN subject["month"] = None /\ subject["day"] = None
               ELSE /\ subject["month"] = IntOrAbsent(month)
                    /\ subject["day"] = IF AbsentOrZero(day) THEN None ELSE IntOrAbsent(day)
            /\ DateChain(subject)

\* C10 witness: year 2022 with no month and day 22 was normalized to no day
C10_Witness ==
    /\ nSubject = 1
    /\ Get(rawSubject, "year") = Num(2022)
    /\ Get(rawSubject, "month") = None
    /\ Get(rawSubject, "day") = Num(22)
    /\ subject["year"] = Num(2022)
    /\ subject["day"] = None

\* the numeric-ratio score as stated: undefined when s is absent, 1 when both are
\* zero, otherwise 1 - |r - s| / max(|s|, |r|)
NumericRatioAsStated(s, r) ==
    IF s = None THEN Nan
    ELSE IF s.n = 0 /\ r.n = 0 THEN Score(Micro)
    ELSE Score(Micro - Ratio(Abs(r.n - s.n), Max2(Abs(s.n), Abs(r.n))))

\* C11: for the normalized elevations s and r of a scored pair (r defined unless s
\* is absent), the numeric-ratio scorer returns undefined if s is absent, the
\* number 1 if both are zero, otherwise 1 - |r - s| / max(|s|, |r|).
C11_NumericRatio ==
    (result.raised # "none"
     /\ (subject["elevation"] = None \/ related["elevation"] # None))
    => get_score_elevationdepth(subject, related)
            = NumericRatioAsStated(subject["elevation"], related["elevation"])

\* the exact-or-include score as stated, as get_scores emits it
ExactOrIncludeAsStated(s, r) ==
    IF s = <<>> \/ r = <<>> THEN [none |-> TRUE, v |-> 0]
    ELSE IF Upper(s) = Upper(r) THEN [none |-> FALSE, v |-> 1000]
    ELSE IF IsSubstring(Upper(s), Upper(r)) \/ IsSubstring(Upper(r), Upper(s))
         THEN [none |-> FALSE, v |-> 800]
    ELSE [none |-> FALSE, v |-> 0]

\* C12: the score of collectionCode and of catalogNumber is undefined if either
\* normalized string is empty, otherwise 1 if the uppercased strings are equal,
\* 0.8 if one is a substring of the other in either direction, 0 otherwise; and
\* the scorer gives the same result with its two arguments swapped.
C12_ExactOrInclude ==
    Scored => \A f \in {"collectionCode", "catalogNumber"} :
        /\ result.scores[f] = ExactOrIncludeAsStated(subject[f].s, related[f].s)
        /\ get_score_string_exact_or_include(subject[f], related[f])
            = get_score_string_exact_or_include(related[f], subject[f])

\* C12 witness: a catalogNumber scored 0.8 because the related string is a proper
\* substring of the subject's
C12_Witness ==
    /\ Scored
    /\ result.scores["catalogNumber"] = [none |-> FALSE, v |-> 800]
    /\ Len(related["catalogNumber"].s) < Len(subject["catalogNumber"].s)

\* the distinct `value` strings of a raw recordedByIDs input (none when absent)
IdsOf(v) == IF v.t = "list" THEN {v.l[i].value : i \in 1..Len(v.l)} ELSE {}

\* C13: normalization turns an absent recordedByIDs into the empty set and a list
\* of records into the set of their distinct value strings; the score is 1 if the
\* two sets intersect and 0 otherwise, never undefined, so an empty set scores 0.
C13_RecordedByIds ==
    LET s == IdsOf(Get(rawSubject, "recordedByIDs"))
        r == IdsOf(Get(rawRelated, "recordedByIDs"))
    IN  /\ (nSubject >= 1) => subject["recordedByIDs"] = FrozenSet(s)
        /\ (nRelated >= 1) => related["recordedByIDs"] = FrozenSet(r)
        /\ Scored => result.scores["recordedByIDs"]
                        = [none |-> FALSE, v |-> IF s \cap r # {} THEN 1000 ELSE 0]

\* C13 witness: recordedByIDs absent on both sides and scored 0
C13_Witness ==
    /\ Scored
    /\ Get(rawSubject, "recordedByIDs") = None
    /\ Get(rawRelated, "recordedByIDs") = None
    /\ subject["recordedByIDs"] = FrozenSet({})
    /\ result.scores["recordedByIDs"] = [none |-> FALSE, v |-> 0]

\* the registered numeric fields
NumericFields ==
    {"elevation", "depth", "year", "month", "day", "individualCount",
     "decimalLatitude", "decimalLongitude"}

\* the numeric fields of a raw mapping whose value is neither absent nor parseable
MalformedFields(occ) ==
    {f \in NumericFields :
        /\ Get(occ, f).t = "str"
        /\ Get(occ, f) # Str(<<>>)
        /\ IsError(ParseNumber(ReplaceCa(Get(occ, f).s)))}

\* C14: an occurrence with a malformed value in a registered numeric field is
\* never normalized: normalize_occurrence fails on it with the error MalformedField.
C14_MalformedField ==
    (MalformedFields(rawSubject) # {}) =>
        (nSubject = 0 /\ raised \in {"ok", "MalformedField"})

\* the Haversine h of the scored pair falls outside [0, 1]: all four coordinates
\* are present and the double h is below 0
HaversineDomainError ==
    /\ Truthy(subject["decimalLatitude"]) /\ Truthy(subject["decimalLongitude"])
    /\ Truthy(related["decimalLatitude"]) /\ Truthy(related["decimalLongitude"])
    /\ RoundsBelowZero(subject["decimalLatitude"].n, subject["decimalLongitude"].n,
                       related["decimalLatitude"].n, related["decimalLongitude"].n)

\* C15: when the square root or the arcsine of the Haversine scorer fails on an h
\* outside [0, 1], the error is caught inside the scorer: get_scores returns a
\* result whose latitude/longitude score is undefined.
C15_HaversineErrorCaught ==
    (result.raised # "none" /\ HaversineDomainError) =>
        (Scored /\ result.scores["decimalLatitude"].none)

\* the registered entries, other than recordedByIDs, whose normalized value is
\* absent or the empty string on either side
AbsentEntries ==
    {i \in 1..Len(Labels) :
        /\ Labels[i] # "recordedByIDs"
        /\ \/ subject[Labels[i]] \in {None, Str(<<>>)}
           \/ related[Labels[i]] \in {None, Str(<<>>)}}

\* C16: on two normalized occurrences get_scores raises no error, and every
\* registered entry other than recordedByIDs whose normalized value is absent or
\* the empty string on either side gets the score undefined.
C16_NoRaiseOnAbsent ==
    (result.raised # "none") =>
        /\ Scored
        /\ \A i \in AbsentEntries : result.scores[Labels[i]].none

\* the keys of the result as stated: the single-field names, the first name of
\* each joint group and $global
KeysAsStated ==
    {"typeStatus", "basisOfRecord", "recordedBy", "recordNumber", "recordedByIDs",
     "collectionCode", "catalogNumber", "individualCount", "family", "genus",
     "specificEpithet", "country", "city", "locality",
     "elevation", "year", "decimalLatitude", "$global"}

\* C17: the result of get_scores has exactly the stated keys, basisOfRecord is
\* scored once, an undefined score (of an entry or of $global) is emitted as
\* None and a defined score, 0 included, as a number.
C17_ResultShape ==
    Scored =>
        LET values == ScoreValues(subject, related) IN
        /\ DOMAIN result.scores = KeysAsStated
        /\ Cardinality({i \in 1..Len(Labels) : Labels[i] = "basisOfRecord"}) = 1
        /\ \A i \in 1..Len(Labels) :
            /\ result.scores[Labels[i]].none <=> (values[i] = Nan)
            /\ (values[i] = Score(0)) => (result.scores[Labels[i]] = [none |-> FALSE, v |-> 0])
        /\ result.scores[GLOBAL].none <=> (\A i \in 1..Len(Labels) : values[i] = Nan)

\* C17 witness: a result with a score of 0 (typeStatus differs) next to an
\* undefined score (country absent)
C17_Witness ==
    /\ Scored
    /\ subject["typeStatus"] # Str(<<>>)
    /\ related["typeStatus"] # Str(<<>>)
    /\ result.scores["typeStatus"] = [none |-> FALSE, v |-> 0]
    /\ result.scores["country"].none

C19_CoordinatesNotExchanged ==
    LET lat == Get(rawSubject, "decimalLatitude")
        long == Get(rawSubject, "decimalLongitude")
    IN  (/\ nSubject = 1
         /\ Truthy(lat) /\ Truthy(long)
         /\ ToNumber(lat).t = "num" /\ ToNumber(long).t = "num"
         /\ ToNumber(lat).n # 0 /\ ToNumber(long).n # 0
         /\ ~(ToNumber(lat).n = 360 /\ ToNumber(long).n = 360))
        => /\ subject["decimalLatitude"] = ToNumber(lat)
           /\ subject["decimalLongitude"] = ToNumber(long)

\* C20: the event a /newOcurrenceRelations request creates refers, by its userId,
\* to a stored user whose name and orcid both equal those of the request (so two
\* requests with the same name and different orcids get two distinct user rows).
C20_UserMatchesRequest ==
    (nRequests > 0 /\ raised = "ok") =>
        LET event == events[Len(events)]
            userObj == users[event.userId]
        IN  /\ userObj.name = request.user.name
            /\ userObj.orcid = request.user.orcid

====
